---- MODULE Spec2Model ----
(***************************************************************************)
(* State-machine model of test2.py: the NHL schedule / play-by-play /      *)
(* skater-stats loader.  main() opens one sqlite3 connection, loads the    *)
(* skater leaderboard, fetches the club schedule and runs process_game on  *)
(* every regular-season entry.                                             *)
(*                                                                         *)
(* The store is modelled twice: `view` is what the open connection sees    *)
(* (committed rows plus the rows of the implicit open transaction), `disk` *)
(* is what has been committed.  conn.commit() copies view to disk;         *)
(* conn.close() drops whatever was not committed.                          *)
(***************************************************************************)
EXTENDS Integers, Sequences, FiniteSets, TLC

VARIABLES pc, disk, view, closes, player_stats, pidx, schedule, gidx,
          plays, pj, total_games, processed_games, lastPrint, hist

vars == <<pc, disk, view, closes, player_stats, pidx, schedule, gidx,
          plays, pj, total_games, processed_games, lastPrint, hist>>

(***************************************************************************)
(* Bounds of the model.                                                    *)
(***************************************************************************)
\* longest schedule the schedule endpoint returns
MaxGames == 2
\* longest leaderboard the stats endpoint returns
MaxStats == 2
\* longest plays list a play-by-play feed returns (game-level specification)
MaxPlays == 2

(***************************************************************************)
(* JSON values.  Every value is a record with a tag t, so that values of   *)
(* different JSON types can be compared.  Absent stands for a key that is  *)
(* missing from its object, Null for JSON null (Python None), List for a   *)
(* JSON array met where a scalar is expected.                              *)
(***************************************************************************)
I(n) == [t |-> "int", v |-> n, s |-> ""]
S(x) == [t |-> "str", v |-> 0, s |-> x]
Null == [t |-> "null", v |-> 0, s |-> ""]
Absent == [t |-> "absent", v |-> 0, s |-> ""]
List == [t |-> "list", v |-> 0, s |-> ""]

\* dict.get(key, default): the default only when the key is missing
Get(x, default) == IF x.t = "absent" THEN default ELSE x

\* dict.get(key): None when the key is missing
GetNone(x) == Get(x, Null)

\* Python truth value of a JSON value
Truthy(x) ==
    CASE x.t = "null" -> FALSE
      [] x.t = "absent" -> FALSE
      [] x.t = "int" -> x.v # 0
      [] x.t = "str" -> x.s # ""
      [] OTHER -> TRUE

\* Python `a or b`
PyOr(a, b) == IF Truthy(a) THEN a ELSE b

\* what sqlite3 can bind as a statement parameter: None, int, str
Bindable(x) == x.t \in {"null", "int", "str"}

Digit == <<"0", "1", "2", "3", "4", "5", "6", "7", "8", "9">>

RECURSIVE IntToStr(_)
IntToStr(n) ==
    IF n < 10 THEN Digit[n + 1] ELSE IntToStr(n \div 10) \o Digit[(n % 10) + 1]

\* a TEXT column stores an integer as its decimal text
TextAffinity(x) ==
    IF x.t # "int" THEN x
    ELSE IF x.v >= 0 THEN S(IntToStr(x.v)) ELSE S("-" \o IntToStr(-x.v))

(***************************************************************************)
(* Configuration.                                                          *)
(***************************************************************************)
SEASON == S("20242025")

(***************************************************************************)
(* The store: three relations.  players is keyed by player_id; games and   *)
(* hits are kept in insertion order.                                       *)
(***************************************************************************)
EmptyStore == [players |-> {}, games |-> <<>>, hits |-> <<>>]

RECURSIVE SetMax(_)
SetMax(A) ==
    IF A = {} THEN 0
    ELSE LET x == CHOOSE y \in A : TRUE
             m == SetMax(A \ {x})
         IN  IF x > m THEN x ELSE m

BoundedSeq(A, n) == UNION {[1..k -> A] : k \in 0..n}

Event(tag, i) == <<tag, i>>

CountEv(tag, i) == Cardinality({k \in 1..Len(hist) : hist[k] = Event(tag, i)})

Happened(tag, i) == \E k \in 1..Len(hist) : hist[k] = Event(tag, i)

(***************************************************************************)
(* HTTP responses.  kind is "error" (RequestException: timeout, transport  *)
(* failure), "status" (a status other than 200), "notobject" (200, but the *)
(* body's JSON is not an object, so .get raises AttributeError) or "ok"    *)
(* (200 with a JSON object; has says whether the extracted key is there).  *)
(***************************************************************************)
Response(kind, has, items) == [kind |-> kind, has |-> has, items |-> items]

FailedResponses ==
    {Response("error", FALSE, <<>>), Response("status", FALSE, <<>>)}

NotObjectResponse == Response("notobject", FALSE, <<>>)

OkResponses(lists) ==
    {Response("ok", TRUE, l) : l \in lists} \cup {Response("ok", FALSE, <<>>)}

(***************************************************************************)
(* Leaderboard records.                                                    *)
(***************************************************************************)
PlayerObject(id, name, team, pos, gp, g, a, pts, pm, pim) ==
    [t |-> "object", playerId |-> id, skaterFullName |-> name,
     teamAbbrevs |-> team, positionCode |-> pos, gamesPlayed |-> gp,
     goals |-> g, assists |-> a, points |-> pts, plusMinus |-> pm,
     penaltyMinutes |-> pim]

Player(id, variant) ==
    CASE variant = "full1" ->
           PlayerObject(id, S("Crosby"), S("PIT"), S("C"),
                        I(80), I(33), I(60), I(93), I(9), I(20))
      [] variant = "full2" ->
           PlayerObject(id, S("Malkin"), S("PIT,TOR"), S("L"),
                        I(68), I(16), I(34), I(50), I(0), I(42))
      [] variant = "bare" ->
           PlayerObject(id, Absent, Absent, Absent,
                        Absent, Absent, Absent, Absent, Absent, Absent)
      [] variant = "partial" ->
           PlayerObject(id, Absent, S("PIT"), Absent,
                        I(12), Null, Absent, I(0), Absent, I(4))
      [] OTHER ->
           PlayerObject(id, S("Letang"), S("PIT"), S("D"),
                        I(74), List, I(21), I(30), I(1), I(36))

PlayerIds == {Absent, I(1), I(2)}

PlayerVariants == {"full1", "full2", "bare", "partial", "unbindable"}

\* the records of the stats-level specification; Null is a list element that
\* is not an object
PlayerRecords ==
    {Player(id, v) : id \in PlayerIds, v \in PlayerVariants} \cup {Null}

StatsResponses ==
    FailedResponses \cup {NotObjectResponse}
      \cup OkResponses(BoundedSeq(PlayerRecords, MaxStats))

\* the leaderboards of the pipeline-level specification
PipelineStatsResponses ==
    FailedResponses \cup {NotObjectResponse}
      \cup OkResponses({<<>>, <<Player(I(1), "full1")>>,
                        <<Player(I(1), "unbindable")>>})

(***************************************************************************)
(* update_player_stats: the parameter tuple of the INSERT OR REPLACE.      *)
(***************************************************************************)
PlayerRow(player) ==
    [player_id |-> GetNone(player.playerId),
     full_name |-> TextAffinity(Get(player.skaterFullName, S("Unknown"))),
     team |-> TextAffinity(Get(player.teamAbbrevs, S("UNK"))),
     position |-> TextAffinity(Get(player.positionCode, S("U"))),
     games_played |-> Get(player.gamesPlayed, I(0)),
     goals |-> Get(player.goals, I(0)),
     assists |-> Get(player.assists, I(0)),
     points |-> Get(player.points, I(0)),
     plus_minus |-> Get(player.plusMinus, I(0)),
     penalty_minutes |-> Get(player.penaltyMinutes, I(0))]

PlayerColumns ==
    {"player_id", "full_name", "team", "position", "games_played", "goals",
     "assists", "points", "plus_minus", "penalty_minutes"}

\* the statement raises when the element is not an object (AttributeError on
\* .get), when a parameter cannot be bound, or when the key is neither an
\* integer nor NULL
PlayerRaises(player) ==
    \/ player.t # "object"
    \/ \E c \in PlayerColumns : ~Bindable(PlayerRow(player)[c])
    \/ PlayerRow(player).player_id.t \notin {"int", "null"}

\* INSERT OR IGNORE in place of INSERT OR REPLACE: the first row with a key
\* stays (mutation used for C8)
InsertOrIgnorePlayer(players, row) ==
    LET key == IF row.player_id.t = "null"
               THEN I(SetMax({r.player_id.v : r \in players}) + 1)
               ELSE row.player_id
    IN  IF \E r \in players : r.player_id = key
        THEN players
        ELSE players \cup {[row EXCEPT !.player_id = key]}

\* INSERT OR REPLACE on an INTEGER PRIMARY KEY: a NULL key takes the largest
\* key in the table plus one, an existing key has its row replaced whole
InsertOrReplace(players, row) ==
    LET key == IF row.player_id.t = "null"
               THEN I(SetMax({r.player_id.v : r \in players}) + 1)
               ELSE row.player_id
        new == [row EXCEPT !.player_id = key]
    IN  {r \in players : r.player_id # key} \cup {new}

(***************************************************************************)
(* State after initialize_database() and sqlite3.connect(): an empty       *)
(* store, main about to call update_player_stats.                          *)
(***************************************************************************)
Init ==
    /\ pc = "LoadingStats"
    /\ disk = EmptyStore
    /\ view = EmptyStore
    /\ closes = 0
    /\ player_stats = <<>>
    /\ pidx = 1
    /\ schedule = <<>>
    /\ gidx = 1
    /\ plays = <<>>
    /\ pj = 1
    /\ total_games = 0
    /\ processed_games = 0
    /\ lastPrint = "Updating player stats..."
    /\ hist = <<>>

\* fetch_player_stats(): the list handed to update_player_stats
StatsOf(resp) == IF resp.kind = "ok" /\ resp.has THEN resp.items ELSE <<>>

\* update_player_stats up to the loop: the fetch and the empty-list return
fetch_player_stats(responses) ==
    /\ pc = "LoadingStats"
    /\ \E resp \in responses :
         IF resp.kind = "notobject"
         THEN /\ pc' = "Crashed"
              /\ hist' = hist \o <<Event("stats_get", 0), Event("stats_raise", 0)>>
              /\ UNCHANGED <<player_stats, lastPrint>>
         ELSE IF StatsOf(resp) = <<>>
         THEN /\ pc' = "FetchingSchedule"
              /\ lastPrint' = "No player stats data available."
              /\ hist' = hist \o <<Event("stats_get", 0), Event("stats_ret", 0)>>
              /\ UNCHANGED player_stats
         ELSE /\ pc' = "UpsertingPlayers"
              /\ player_stats' = StatsOf(resp)
              /\ hist' = Append(hist, Event("stats_get", 0))
              /\ UNCHANGED lastPrint
    /\ pidx' = 1
    /\ UNCHANGED <<disk, view, closes, schedule, gidx, plays, pj,
                   total_games, processed_games>>

\* one iteration of the loop over player_stats
upsert_player ==
    /\ pc = "UpsertingPlayers"
    /\ pidx <= Len(player_stats)
    /\ LET player == player_stats[pidx]
       IN  IF PlayerRaises(player)
           THEN /\ lastPrint' = "Error processing player data"
                /\ UNCHANGED view
           ELSE /\ view' = [view EXCEPT
                      !.players = InsertOrReplace(@, PlayerRow(player))]
                /\ UNCHANGED lastPrint
    /\ pidx' = pidx + 1
    /\ UNCHANGED <<pc, disk, closes, player_stats, schedule, gidx, plays, pj,
                   total_games, processed_games, hist>>

\* conn.commit() after the loop, and the return to main
commit_player_stats ==
    /\ pc = "UpsertingPlayers"
    /\ pidx > Len(player_stats)
    /\ disk' = view
    /\ lastPrint' = "Updated stats for players"
    /\ pc' = "FetchingSchedule"
    /\ hist' = Append(hist, Event("stats_ret", 0))
    /\ UNCHANGED <<view, closes, player_stats, pidx, schedule, gidx, plays, pj,
                   total_games, processed_games>>

(***************************************************************************)
(* Schedule entries.                                                       *)
(***************************************************************************)
Team(abbrev, score) == [t |-> "object", abbrev |-> abbrev, score |-> score]

Game(id, date, type, home, away) ==
    [t |-> "object", id |-> id, gameDate |-> date, gameType |-> type,
     homeTeam |-> home, awayTeam |-> away]

\* two regular-season entries with one identifier and different attributes
GameA == Game(I(1), S("2024-10-09"), I(2), Team(S("PIT"), I(3)), Team(S("NYR"), I(6)))
GameB == Game(I(1), S("2024-10-12"), I(2), Absent, Team(Absent, Absent))
\* a playoff entry
GameC == Game(I(2), S("2025-04-20"), I(3), Team(S("PIT"), I(1)), Team(S("TOR"), I(2)))
\* a regular-season entry whose homeTeam is null
GameD == Game(I(2), S("2024-10-16"), I(2), Null, Team(S("BUF"), I(0)))
\* a regular-season entry without an id (game-level specification)
GameE == Game(Absent, S("2024-10-18"), I(2), Team(S("PIT"), I(4)), Team(S("CAR"), I(1)))

\* a regular-season entry with an identifier of its own
GameF == Game(I(3), S("2024-10-22"), I(2), Team(S("CGY"), I(4)), Team(S("PIT"), I(3)))

\* Null is a schedule element that is not an object
ScheduleEntries == {GameA, GameB, GameC, GameD, GameF, Null}

ScheduleResponses ==
    FailedResponses \cup {NotObjectResponse}
      \cup OkResponses(BoundedSeq(ScheduleEntries, MaxGames))

\* fetch_schedule(): the list handed to main
ScheduleOf(resp) == IF resp.kind = "ok" /\ resp.has THEN resp.items ELSE <<>>

\* the filter written as gameType >= 2: playoff entries pass (mutation used
\* for C6)
IsRegularSeasonOrLater(game) ==
    GetNone(game.gameType).t = "int" /\ GetNone(game.gameType).v >= 2

\* main's filter: game.get('gameType') == 2
IsRegularSeason(game) == GetNone(game.gameType) = I(2)

\* game_data.get(side, {}): an empty object when the key is missing
SideOf(x) == IF x.t = "absent" THEN Team(Absent, Absent) ELSE x

\* the parameter tuple of process_game's INSERT OR IGNORE; entry records the
\* schedule position whose call wrote the row (history, not a column)
GameRow(game, i) ==
    [game_id |-> TextAffinity(GetNone(game.id)),
     game_date |-> TextAffinity(GetNone(game.gameDate)),
     home_team |-> TextAffinity(Get(SideOf(game.homeTeam).abbrev, S("UNK"))),
     away_team |-> TextAffinity(Get(SideOf(game.awayTeam).abbrev, S("UNK"))),
     home_score |-> Get(SideOf(game.homeTeam).score, I(0)),
     away_score |-> Get(SideOf(game.awayTeam).score, I(0)),
     season |-> SEASON,
     entry |-> i]

GameColumns ==
    {"game_id", "game_date", "home_team", "away_team", "home_score",
     "away_score", "season"}

\* building the tuple raises AttributeError when homeTeam or awayTeam is
\* present but not an object; the statement raises on an unbindable parameter
GameRaises(game) ==
    \/ SideOf(game.homeTeam).t # "object"
    \/ SideOf(game.awayTeam).t # "object"
    \/ \E c \in GameColumns : ~Bindable(GameRow(game, 0)[c])

\* INSERT OR REPLACE in place of INSERT OR IGNORE: the later row takes the
\* place of the one holding the key (mutation used for C7)
InsertOrReplaceGame(games, row) ==
    IF row.game_id.t = "null"
    THEN Append(games, row)
    ELSE SelectSeq(games, LAMBDA r : r.game_id # row.game_id) \o <<row>>

\* INSERT OR IGNORE on a TEXT PRIMARY KEY: a row whose key is already in the
\* table is dropped; NULL keys never conflict
InsertOrIgnore(games, row) ==
    IF row.game_id.t # "null"
       /\ \E k \in 1..Len(games) : games[k].game_id = row.game_id
    THEN games
    ELSE Append(games, row)

(***************************************************************************)
(* Play-by-play entries.                                                   *)
(***************************************************************************)
Details(hitter, hittee, x, y) ==
    [t |-> "object", hittingPlayerId |-> hitter, hitteePlayerId |-> hittee,
     xCoord |-> x, yCoord |-> y]

Period(number, type) == [t |-> "object", number |-> number, periodType |-> type]

Play(type, period, time, x, y, details) ==
    [t |-> "object", typeDescKey |-> type, periodDescriptor |-> period,
     timeInPeriod |-> time, xCoord |-> x, yCoord |-> y, details |-> details]

\* play.get('details', {}) and play.get('periodDescriptor', {})
DetailsOf(play) ==
    IF play.details.t = "absent"
    THEN Details(Absent, Absent, Absent, Absent) ELSE play.details

PeriodOf(play) ==
    IF play.periodDescriptor.t = "absent"
    THEN Period(Absent, Absent) ELSE play.periodDescriptor

IsHit(play) == GetNone(play.typeDescKey) = S("hit")

hitter_id(play) == GetNone(DetailsOf(play).hittingPlayerId)

hittee_id(play) == GetNone(DetailsOf(play).hitteePlayerId)

\* x_coord = play.get('xCoord') or details.get('xCoord')
x_coord(play) == PyOr(GetNone(play.xCoord), GetNone(DetailsOf(play).xCoord))

y_coord(play) == PyOr(GetNone(play.yCoord), GetNone(DetailsOf(play).yCoord))

\* if hitter_id and hittee_id
HasBothIds(play) == Truthy(hitter_id(play)) /\ Truthy(hittee_id(play))

\* an exception that leaves process_game: the element is not an object, or
\* it is a hit whose details or periodDescriptor is present but not an object
PlayRaises(play) ==
    \/ play.t # "object"
    \/ /\ IsHit(play)
       /\ \/ DetailsOf(play).t # "object"
          \/ PeriodOf(play).t # "object"

\* the parameter tuple of the INSERT INTO hits; hit_id is the AUTOINCREMENT
\* key; entry and play record the schedule position and the play position
\* the row was written for (history, not columns)
HitRow(game, play, n, i, j) ==
    [hit_id |-> n + 1,
     game_id |-> TextAffinity(GetNone(game.id)),
     period |-> Get(PeriodOf(play).number, I(0)),
     period_type |-> TextAffinity(Get(PeriodOf(play).periodType, S("REG"))),
     time_elapsed |-> TextAffinity(Get(play.timeInPeriod, S("0:00"))),
     xCoord |-> x_coord(play),
     yCoord |-> y_coord(play),
     hitter_id |-> hitter_id(play),
     hittee_id |-> hittee_id(play),
     entry |-> i,
     play |-> j]

HitColumns ==
    {"game_id", "period", "period_type", "time_elapsed", "xCoord", "yCoord",
     "hitter_id", "hittee_id"}

\* sqlite3.Error on an unbindable parameter, caught around the INSERT
HitRaises(row) == \E c \in HitColumns : ~Bindable(row[c])

(***************************************************************************)
(* The feeds the model draws from.                                         *)
(***************************************************************************)
RegPeriod == Period(I(2), S("REG"))

HitPlay == Play(S("hit"), RegPeriod, S("07:15"), I(-52), I(10),
                Details(I(7), I(9), Absent, Absent))

\* a hit whose details is null: details.get raises AttributeError
NullDetailsHit == Play(S("hit"), RegPeriod, S("11:02"), I(40), I(-3), Null)

Faceoff == Play(S("faceoff"), RegPeriod, S("00:00"), I(0), I(0),
                Details(Absent, Absent, Absent, Absent))

\* the feeds of the pipeline-level specification
PipelinePbpResponses ==
    FailedResponses \cup {NotObjectResponse}
      \cup OkResponses({<<HitPlay>>, <<Faceoff, HitPlay, NullDetailsHit>>})

IdValues == {Absent, Null, I(0), I(7)}

TopCoords == {Absent, Null, I(0), I(5)}

DetailCoords == {Absent, Null, I(0), I(-8)}

\* the plays of the game-level specification
GamePlays ==
    {Play(S("hit"), RegPeriod, S("07:15"), I(5), I(3), Details(h, e, Absent, Absent)) :
        h \in IdValues, e \in IdValues}
      \cup {Play(S("hit"), RegPeriod, S("07:15"), x, I(3), Details(I(7), I(9), dx, Absent)) :
              x \in TopCoords, dx \in DetailCoords}
      \cup {Play(S("hit"), RegPeriod, S("07:15"), I(5), y, Details(I(7), I(9), Absent, dy)) :
              y \in TopCoords, dy \in DetailCoords}
      \cup {Play(S("hit"), p, tm, I(5), I(3), Details(I(7), I(9), Absent, Absent)) :
              p \in {Absent, Null, Period(Absent, Absent), Period(I(4), S("OT"))},
              tm \in {Absent, List}}
      \cup {Play(ty, RegPeriod, S("07:15"), I(5), I(3), d) :
              ty \in {S("hit"), S("goal"), Absent},
              d \in {Absent, Null, Details(I(7), I(9), I(1), I(2))}}
      \cup {Null}

GamePbpResponses ==
    FailedResponses \cup {NotObjectResponse}
      \cup OkResponses(BoundedSeq(GamePlays, MaxPlays))

(***************************************************************************)
(* main after update_player_stats.                                         *)
(***************************************************************************)
\* schedule = fetch_schedule(), the empty-schedule exit, total_games
fetch_schedule ==
    /\ pc = "FetchingSchedule"
    /\ \E resp \in ScheduleResponses :
         IF resp.kind = "notobject"
         THEN /\ pc' = "Crashed"
              /\ hist' = hist \o <<Event("sched_get", 0), Event("sched_raise", 0)>>
              /\ lastPrint' = "Fetching schedule"
              /\ UNCHANGED <<schedule, total_games, closes, view>>
         ELSE IF ScheduleOf(resp) = <<>>
         THEN /\ pc' = "Done"
              /\ closes' = closes + 1
              /\ view' = disk
              /\ lastPrint' = "No schedule data available."
              /\ hist' = hist \o <<Event("sched_get", 0), Event("sched_ret", 0),
                                   Event("close", 0)>>
              /\ UNCHANGED <<schedule, total_games>>
         ELSE IF \E k \in 1..Len(ScheduleOf(resp)) : ScheduleOf(resp)[k].t # "object"
         THEN /\ pc' = "Crashed"
              /\ schedule' = ScheduleOf(resp)
              /\ lastPrint' = "Fetching schedule"
              /\ hist' = hist \o <<Event("sched_get", 0), Event("sched_ret", 0),
                                   Event("main_raise", 0)>>
              /\ UNCHANGED <<total_games, closes, view>>
         ELSE /\ pc' = "ProcessingGames"
              /\ schedule' = ScheduleOf(resp)
              /\ total_games' =
                   Cardinality({k \in 1..Len(ScheduleOf(resp)) :
                                   IsRegularSeason(ScheduleOf(resp)[k])})
              /\ lastPrint' = "Processing regular season games..."
              /\ hist' = hist \o <<Event("sched_get", 0), Event("sched_ret", 0)>>
              /\ UNCHANGED <<closes, view>>
    /\ gidx' = 1
    /\ processed_games' = 0
    /\ UNCHANGED <<disk, player_stats, pidx, plays, pj>>

\* the loop with time.sleep(1) outside the `if`: a filtered entry is followed
\* by the delay too (mutation used for C10)
skip_game_with_delay ==
    /\ pc = "ProcessingGames"
    /\ gidx <= Len(schedule)
    /\ ~(GetNone(schedule[gidx].gameType) = I(2))
    /\ gidx' = gidx + 1
    /\ hist' = hist \o <<Event("filtered", gidx), Event("sleep", gidx)>>
    /\ UNCHANGED <<pc, disk, view, closes, player_stats, pidx, schedule,
                   plays, pj, total_games, processed_games, lastPrint>>

\* a loop iteration on an entry the gameType filter rejects
skip_game ==
    /\ pc = "ProcessingGames"
    /\ gidx <= Len(schedule)
    /\ ~IsRegularSeason(schedule[gidx])
    /\ gidx' = gidx + 1
    /\ hist' = Append(hist, Event("filtered", gidx))
    /\ UNCHANGED <<pc, disk, view, closes, player_stats, pidx, schedule,
                   plays, pj, total_games, processed_games, lastPrint>>

\* main's `except Exception` around process_game: print and continue
GameFailed ==
    /\ pc' = "ProcessingGames"
    /\ gidx' = gidx + 1
    /\ lastPrint' = "Error processing game"
    /\ plays' = <<>>
    /\ pj' = 1
    /\ UNCHANGED processed_games

\* the call of process_game and its INSERT OR IGNORE INTO games
insert_game ==
    /\ pc = "ProcessingGames"
    /\ gidx <= Len(schedule)
    /\ IsRegularSeason(schedule[gidx])
    /\ IF GameRaises(schedule[gidx])
       THEN /\ GameFailed
            /\ hist' = hist \o <<Event("call", gidx), Event("raised", gidx)>>
            /\ UNCHANGED view
       ELSE /\ view' = [view EXCEPT
                  !.games = InsertOrIgnore(@, GameRow(schedule[gidx], gidx))]
            /\ pc' = "FetchingPbp"
            /\ lastPrint' = "Processing game"
            /\ hist' = hist \o <<Event("call", gidx), Event("game_ins", gidx)>>
            /\ UNCHANGED <<gidx, plays, pj, processed_games>>
    /\ UNCHANGED <<disk, closes, player_stats, pidx, schedule, total_games>>

\* PbpOutcome with the except clause missing the exception: a transport
\* error leaves process_game (mutation used for C3)
PbpOutcomeUncaught(resp) ==
    CASE resp.kind = "notobject" -> "raise"
      [] resp.kind = "error" -> "raise"
      [] resp.kind = "status" -> "skip"
      [] resp.has /\ resp.items # <<>> -> "scan"
      [] OTHER -> "empty"

\* what process_game does with the response of requests.get(pbp_url):
\* "caught" is the except RequestException branch, "skip" a status other
\* than 200, "raise" an AttributeError on a body that is not an object,
\* "scan" a truthy plays list, "empty" a missing or empty one
PbpOutcome(resp) ==
    CASE resp.kind = "notobject" -> "raise"
      [] resp.kind = "error" -> "caught"
      [] resp.kind = "status" -> "skip"
      [] resp.has /\ resp.items # <<>> -> "scan"
      [] OTHER -> "empty"

\* requests.get(pbp_url) and the branch process_game takes on the response;
\* the history records the request and the kind of response it met
fetch_pbp(responses) ==
    /\ pc = "FetchingPbp"
    /\ \E resp \in responses :
         LET seen == hist \o <<Event("pbp_get", gidx), Event(resp.kind, gidx)>>
         IN  CASE PbpOutcome(resp) = "raise" ->
                    /\ GameFailed
                    /\ hist' = Append(seen, Event("raised", gidx))
               [] PbpOutcome(resp) = "caught" ->
                    /\ pc' = "CommittingGame"
                    /\ lastPrint' = "Error fetching play-by-play"
                    /\ hist' = seen
                    /\ UNCHANGED <<gidx, plays, pj, processed_games>>
               [] PbpOutcome(resp) = "scan" ->
                    /\ pc' = "ScanningPlays"
                    /\ plays' = resp.items
                    /\ pj' = 1
                    /\ hist' = seen
                    /\ UNCHANGED <<gidx, processed_games, lastPrint>>
               [] OTHER ->
                    /\ pc' = "CommittingGame"
                    /\ hist' = seen
                    /\ UNCHANGED <<gidx, plays, pj, processed_games, lastPrint>>
    /\ UNCHANGED <<disk, view, closes, player_stats, pidx, schedule, total_games>>

\* one iteration of the loop over pbp['plays']
scan_play ==
    /\ pc = "ScanningPlays"
    /\ pj <= Len(plays)
    /\ LET play == plays[pj]
           game == schedule[gidx]
           row == HitRow(game, play, Len(view.hits), gidx, pj)
       IN  IF PlayRaises(play)
           THEN /\ GameFailed
                /\ hist' = Append(hist, Event("raised", gidx))
                /\ UNCHANGED view
           ELSE /\ pc' = IF pj = Len(plays) THEN "CommittingGame" ELSE pc
                /\ pj' = pj + 1
                /\ view' = IF IsHit(play) /\ HasBothIds(play) /\ ~HitRaises(row)
                           THEN [view EXCEPT !.hits = Append(@, row)]
                           ELSE view
                /\ lastPrint' =
                     CASE IsHit(play) /\ ~HasBothIds(play) ->
                            "Skipping hit record - missing player IDs"
                       [] IsHit(play) /\ HasBothIds(play) /\ HitRaises(row) ->
                            "Database error inserting hit"
                       [] OTHER -> lastPrint
                /\ UNCHANGED <<gidx, plays, processed_games, hist>>
    /\ UNCHANGED <<disk, closes, player_stats, pidx, schedule, total_games>>

\* conn.commit() at the end of process_game, the return, processed_games += 1
commit_game ==
    /\ pc = "CommittingGame"
    /\ disk' = view
    /\ processed_games' = processed_games + 1
    /\ pc' = "Sleeping"
    /\ plays' = <<>>
    /\ pj' = 1
    /\ hist' = hist \o <<Event("commit", gidx), Event("returned", gidx)>>
    /\ UNCHANGED <<view, closes, player_stats, pidx, schedule, gidx,
                   total_games, lastPrint>>

\* time.sleep(1) and the step to the next entry
pacing_delay ==
    /\ pc = "Sleeping"
    /\ hist' = Append(hist, Event("sleep", gidx))
    /\ gidx' = gidx + 1
    /\ pc' = "ProcessingGames"
    /\ UNCHANGED <<disk, view, closes, player_stats, pidx, schedule, plays, pj,
                   total_games, processed_games, lastPrint>>

\* conn.close() after the loop: what was not committed is dropped
close_connection ==
    /\ pc = "ProcessingGames"
    /\ gidx > Len(schedule)
    /\ closes' = closes + 1
    /\ view' = disk
    /\ lastPrint' = "Completed processing games."
    /\ pc' = "Done"
    /\ hist' = Append(hist, Event("close", 0))
    /\ UNCHANGED <<disk, player_stats, pidx, schedule, gidx, plays, pj,
                   total_games, processed_games>>

(***************************************************************************)
(* Specifications.  Spec is a run of main.  SpecStats is update_player_    *)
(* stats over every leaderboard of up to MaxStats records.  SpecGame is    *)
(* the game loop on a one-entry schedule over every feed of up to MaxPlays *)
(* plays.                                                                  *)
(***************************************************************************)
Next ==
    \/ fetch_player_stats(PipelineStatsResponses)
    \/ upsert_player
    \/ commit_player_stats
    \/ fetch_schedule
    \/ skip_game
    \/ insert_game
    \/ fetch_pbp(PipelinePbpResponses)
    \/ scan_play
    \/ commit_game
    \/ pacing_delay
    \/ close_connection

Spec == Init /\ [][Next]_vars

NextStats ==
    \/ fetch_player_stats(StatsResponses)
    \/ upsert_player
    \/ commit_player_stats

SpecStats == Init /\ [][NextStats]_vars

\* main at the head of the game loop: the stats fetch failed, the schedule
\* holds one regular-season entry
InitGame ==
    /\ pc = "ProcessingGames"
    /\ disk = EmptyStore
    /\ view = EmptyStore
    /\ closes = 0
    /\ player_stats = <<>>
    /\ pidx = 1
    /\ schedule \in {<<GameA>>, <<GameE>>}
    /\ gidx = 1
    /\ plays = <<>>
    /\ pj = 1
    /\ total_games = 1
    /\ processed_games = 0
    /\ lastPrint = "Processing regular season games..."
    /\ hist = <<Event("stats_get", 0), Event("stats_ret", 0),
                Event("sched_get", 0), Event("sched_ret", 0)>>

NextGame ==
    \/ insert_game
    \/ fetch_pbp(GamePbpResponses)
    \/ scan_play
    \/ commit_game
    \/ pacing_delay
    \/ close_connection

SpecGame == InitGame /\ [][NextGame]_vars

(***************************************************************************)
(* Properties.                                                             *)
(***************************************************************************)
Entries == 1..Len(schedule)

GameRowsOf(store, i) == {k \in 1..Len(store.games) : store.games[k].entry = i}

HitRowsOf(store, i) == {k \in 1..Len(store.hits) : store.hits[k].entry = i}

Terminated == pc \in {"Done", "Crashed"}

\* C1: each unit of work is one transaction.  The committed players relation
\* is empty or the whole stats batch; a game whose processing raised before
\* its commit has no game row and no hit row in the committed store, whatever
\* is processed afterwards (stated for the games whose identifier no other
\* entry shares, where the row can only be the failed call's); the rows of a
\* committed game stay committed.
C1_UnitOfWorkIsOneTransaction ==
    /\ disk.players # {} => Happened("stats_ret", 0) /\ disk.players = view.players
    /\ \A i \in Entries :
         (Happened("raised", i) /\ \A j \in Entries \ {i} : schedule[j].id # schedule[i].id) =>
           GameRowsOf(disk, i) = {} /\ HitRowsOf(disk, i) = {}
    /\ \A i \in Entries :
         Happened("commit", i) =>
           /\ \A k \in GameRowsOf(view, i) : k \in GameRowsOf(disk, i)
           /\ \A k \in HitRowsOf(view, i) : k \in HitRowsOf(disk, i)

\* C2: every run of main ends in the terminal state Done with the connection
\* closed exactly once; no failure escapes its stage.
C2_EveryRunClosesOnce ==
    /\ closes <= 1
    /\ Terminated => pc = "Done" /\ closes = 1 /\ CountEv("close", 0) = 1

\* the game row that stands for entry i: the row its call wrote, or the row
\* already holding its identifier
StandsFor(row, i) ==
    \/ row.entry = i
    \/ /\ GetNone(schedule[i].id).t = "int"
       /\ row.game_id = S(IntToStr(schedule[i].id.v))

\* the play-by-play request of entry i met a RequestException or a status
\* other than 200
FetchFailed(i) == Happened("error", i) \/ Happened("status", i)

\* C3: when the play-by-play fetch of entry i fails (RequestException or a
\* status other than 200), process_game does not raise and commits: the game
\* row standing for the entry is in the committed store from that commit on,
\* the call writes no hit row (and no hit row carries the identifier when no
\* other entry shares it), and main calls process_game on every later
\* regular-season entry before it ends.
C3_PbpFailureKeepsGameRow ==
    \A i \in Entries :
      FetchFailed(i) =>
        /\ pc # "Crashed"
        /\ ~Happened("raised", i)
        /\ (pc = "CommittingGame" /\ gidx = i) \/ Happened("commit", i)
        /\ Happened("commit", i) =>
             /\ Happened("returned", i)
             /\ \E k \in 1..Len(disk.games) : StandsFor(disk.games[k], i)
        /\ HitRowsOf(view, i) = {} /\ HitRowsOf(disk, i) = {}
        /\ (\A j \in Entries \ {i} : schedule[j].id # schedule[i].id) =>
             \A k \in 1..Len(view.hits) :
               view.hits[k].game_id # TextAffinity(GetNone(schedule[i].id))
        /\ \A j \in Entries :
             (j > i /\ GetNone(schedule[j].gameType) = I(2) /\ (gidx > j \/ pc = "Done"))
               => Happened("call", j)
        /\ pc = "Done" => gidx = Len(schedule) + 1

\* C3 witness: the first entry's fetch failed, its row is committed, the
\* second entry was processed and the run is over
C3_Witness ==
    /\ pc = "Done"
    /\ Happened("error", 1)
    /\ GameRowsOf(disk, 1) # {}
    /\ Happened("call", 2)

\* C6: an entry whose gameType is not 2 is never handed to process_game: no
\* call, no INSERT INTO games, no play-by-play request, no game row and no
\* hit row come from it.
C6_OnlyRegularSeasonProcessed ==
    \A i \in Entries :
      (schedule[i].t # "object" \/ GetNone(schedule[i].gameType) # I(2)) =>
        /\ ~Happened("call", i)
        /\ ~Happened("game_ins", i)
        /\ ~Happened("pbp_get", i)
        /\ GameRowsOf(view, i) = {} /\ GameRowsOf(disk, i) = {}
        /\ HitRowsOf(view, i) = {} /\ HitRowsOf(disk, i) = {}

\* C6 witness: a playoff entry was passed over and a regular-season entry
\* after it was processed
C6_Witness ==
    /\ pc = "Done"
    /\ schedule = <<GameC, GameA>>
    /\ Happened("filtered", 1)
    /\ Happened("returned", 2)
    /\ GameRowsOf(disk, 2) # {}

\* the entries whose INSERT OR IGNORE was executed with the identifier of i
SameIdInserts(i) ==
    {j \in Entries : Happened("game_ins", j) /\ schedule[j].id = schedule[i].id}

FirstInsert(i) == CHOOSE f \in SameIdInserts(i) : \A j \in SameIdInserts(i) : f <= j

RowsWithId(store, i) ==
    {k \in 1..Len(store.games) :
       store.games[k].game_id = S(IntToStr(schedule[i].id.v))}

\* the columns of a games row as the INSERT of entry f bound them
FirstValues(row, f) ==
    /\ row.entry = f
    /\ row.game_date = GetNone(schedule[f].gameDate)
    /\ row.home_team =
         (IF schedule[f].homeTeam.t = "absent" \/ schedule[f].homeTeam.abbrev.t = "absent"
          THEN S("UNK") ELSE schedule[f].homeTeam.abbrev)
    /\ row.away_team =
         (IF schedule[f].awayTeam.t = "absent" \/ schedule[f].awayTeam.abbrev.t = "absent"
          THEN S("UNK") ELSE schedule[f].awayTeam.abbrev)
    /\ row.home_score =
         (IF schedule[f].homeTeam.t = "absent" \/ schedule[f].homeTeam.score.t = "absent"
          THEN I(0) ELSE schedule[f].homeTeam.score)
    /\ row.away_score =
         (IF schedule[f].awayTeam.t = "absent" \/ schedule[f].awayTeam.score.t = "absent"
          THEN I(0) ELSE schedule[f].awayTeam.score)
    /\ row.season = S("20242025")

\* C7: for an identifier whose INSERT OR IGNORE has been executed, once or
\* several times, the games relation seen through the open connection holds
\* exactly one row, with the values the first of those inserts bound; it
\* holds them in every later state, so the row never changes.  The committed
\* relation never holds two rows for the identifier or other values, and
\* holds the row from the first commit at or after the first insert.
C7_FirstGameInsertWins ==
    \A i \in Entries :
      (Happened("game_ins", i) /\ GetNone(schedule[i].id).t = "int") =>
        /\ closes = 0 =>
             /\ Cardinality(RowsWithId(view, i)) = 1
             /\ \A k \in RowsWithId(view, i) : FirstValues(view.games[k], FirstInsert(i))
        /\ Cardinality(RowsWithId(disk, i)) <= 1
        /\ \A k \in RowsWithId(disk, i) : FirstValues(disk.games[k], FirstInsert(i))
        /\ (\E j \in Entries : j >= FirstInsert(i) /\ Happened("commit", j))
             => Cardinality(RowsWithId(disk, i)) = 1

\* C7 witness: two entries with one identifier and different attributes have
\* both had their INSERT executed and the second call has committed
C7_Witness ==
    /\ schedule = <<GameA, GameB>>
    /\ Happened("game_ins", 1)
    /\ Happened("game_ins", 2)
    /\ Happened("commit", 2)
    /\ closes = 0

IsTag(k, tag) == hist[k][1] = tag

\* C9: the stages run in the order stats load, schedule fetch, game
\* processing.  The schedule request is issued only after the stats load has
\* ended, and is issued whatever way it ended; process_game is called only
\* after the schedule fetch returned, and on the entries in schedule order.
C9_StageOrder ==
    /\ \A k \in 1..Len(hist) :
         IsTag(k, "sched_get") =>
           \E m \in 1..(k - 1) : IsTag(m, "stats_ret") \/ IsTag(m, "stats_raise")
    /\ (Happened("stats_ret", 0) \/ Happened("stats_raise", 0)) =>
         (Happened("sched_get", 0) \/ pc = "FetchingSchedule")
    /\ \A k \in 1..Len(hist) :
         (IsTag(k, "call") \/ IsTag(k, "pbp_get")) =>
           \E m \in 1..(k - 1) : IsTag(m, "sched_ret")
    /\ \A k, m \in 1..Len(hist) :
         (k < m /\ IsTag(k, "call") /\ IsTag(m, "call")) => hist[k][2] < hist[m][2]

\* C10: the pacing delay is taken exactly once after each call of
\* process_game that returned, directly after it; never after an entry that
\* was filtered out or whose call raised; never before the first
\* play-by-play request; and processed_games counts the delays taken.
C10_DelayAfterEachProcessedGame ==
    /\ \A i \in Entries :
         /\ CountEv("sleep", i) <= 1
         /\ Happened("returned", i) =>
              (Happened("sleep", i) \/ (pc = "Sleeping" /\ gidx = i))
         /\ (Happened("filtered", i) \/ Happened("raised", i)) => ~Happened("sleep", i)
    /\ \A k \in 1..Len(hist) :
         IsTag(k, "sleep") =>
           /\ k > 1 /\ hist[k - 1] = Event("returned", hist[k][2])
           /\ \E m \in 1..(k - 1) : IsTag(m, "pbp_get")
    /\ processed_games =
         Cardinality({k \in 1..Len(hist) : IsTag(k, "sleep")})
           + (IF pc = "Sleeping" THEN 1 ELSE 0)

\* C10 witness: a run that ended after one call returned and another raised
C10_Witness ==
    /\ pc = "Done"
    /\ \E i, j \in Entries : Happened("sleep", i) /\ Happened("raised", j)
    /\ processed_games = 1

\* the play a hit row of the game being processed was written for
SourcePlay(row) == plays[row.play]

ScanningGame == pc \in {"ScanningPlays", "CommittingGame"} /\ plays # <<>>

CurrentHits == {view.hits[k] : k \in HitRowsOf(view, gidx)}

\* C4: for a play that carries a top-level coordinate and a details-level
\* coordinate, whatever the two numbers (0 included), the hit row stores the
\* top-level one; likewise for yCoord.
C4_TopLevelCoordinateWins ==
    ScanningGame =>
      \A row \in CurrentHits :
        /\ (SourcePlay(row).xCoord.t = "int" /\ SourcePlay(row).details.xCoord.t = "int")
             => row.xCoord = SourcePlay(row).xCoord
        /\ (SourcePlay(row).yCoord.t = "int" /\ SourcePlay(row).details.yCoord.t = "int")
             => row.yCoord = SourcePlay(row).yCoord

\* the identifier is in the play's details and is not null
HasId(play, key) ==
    /\ play.details.t = "object"
    /\ play.details[key].t \notin {"absent", "null"}

\* every parameter of the hit INSERT other than the identifiers can be bound
OtherColumnsBindable(play) ==
    /\ play.periodDescriptor.t \in {"absent", "object"}
    /\ play.timeInPeriod.t # "list"

\* C5: every hit row carries a hitter and a receiver identifier that the
\* source play held, non-null; a "hit" play lacking either one leaves no row
\* and logs the skip; a "hit" play holding both, non-null, is not skipped by
\* the identifier check, so its row is written.
C5_HitRowIffBothIds ==
    /\ \A k \in 1..Len(view.hits) :
         /\ view.hits[k].hitter_id.t \notin {"absent", "null"}
         /\ view.hits[k].hittee_id.t \notin {"absent", "null"}
    /\ ScanningGame =>
         /\ \A row \in CurrentHits :
              /\ HasId(SourcePlay(row), "hittingPlayerId")
              /\ HasId(SourcePlay(row), "hitteePlayerId")
              /\ row.hitter_id = SourcePlay(row).details.hittingPlayerId
              /\ row.hittee_id = SourcePlay(row).details.hitteePlayerId
         /\ \A j \in 1..(pj - 1) :
              (plays[j].typeDescKey = S("hit")
                 /\ ~(HasId(plays[j], "hittingPlayerId") /\ HasId(plays[j], "hitteePlayerId")))
                => /\ \A row \in CurrentHits : row.play # j
                   /\ j = pj - 1 => lastPrint = "Skipping hit record - missing player IDs"
         /\ \A j \in 1..(pj - 1) :
              (plays[j].typeDescKey = S("hit")
                 /\ HasId(plays[j], "hittingPlayerId") /\ HasId(plays[j], "hitteePlayerId")
                 /\ OtherColumnsBindable(plays[j]))
                => \E row \in CurrentHits : row.play = j

PlayerFields ==
    {"skaterFullName", "teamAbbrevs", "positionCode", "gamesPlayed", "goals",
     "assists", "points", "plusMinus", "penaltyMinutes"}

ColumnOf ==
    [skaterFullName |-> "full_name", teamAbbrevs |-> "team",
     positionCode |-> "position", gamesPlayed |-> "games_played",
     goals |-> "goals", assists |-> "assists", points |-> "points",
     plusMinus |-> "plus_minus", penaltyMinutes |-> "penalty_minutes"]

DocumentedDefault ==
    [skaterFullName |-> S("Unknown"), teamAbbrevs |-> S("UNK"),
     positionCode |-> S("U"), gamesPlayed |-> I(0), goals |-> I(0),
     assists |-> I(0), points |-> I(0), plusMinus |-> I(0),
     penaltyMinutes |-> I(0)]

\* the row holds the record's values, the documented default where the
\* record lacks the field, and nothing of another record
HoldsRecord(row, rec) ==
    \A f \in PlayerFields :
      row[ColumnOf[f]] = (IF rec[f].t = "absent" THEN DocumentedDefault[f] ELSE rec[f])

HasIdentifier(k) ==
    player_stats[k].t = "object" /\ player_stats[k].playerId.t = "int"

\* the INSERT OR REPLACE of record k does not raise: every field it carries
\* is a number, a string or null
Storable(k) ==
    /\ player_stats[k].t = "object"
    /\ \A f \in PlayerFields : player_stats[k][f].t \in {"absent", "null", "int", "str"}

RowsOfPlayer(id) == {r \in disk.players : r.player_id = id}

StatsLoaded == pc = "FetchingSchedule" /\ Happened("stats_ret", 0)

\* C8 as stated: after update_player_stats, every identifier in the
\* leaderboard has exactly one row, holding the last record with that
\* identifier.
C8_OneRowPerIdentifier ==
    StatsLoaded =>
      \A k \in 1..Len(player_stats) :
        (HasIdentifier(k)
           /\ \A m \in (k + 1)..Len(player_stats) :
                ~(HasIdentifier(m) /\ player_stats[m].playerId = player_stats[k].playerId))
          => /\ Cardinality(RowsOfPlayer(player_stats[k].playerId)) = 1
             /\ \A r \in RowsOfPlayer(player_stats[k].playerId) :
                  HoldsRecord(r, player_stats[k])

\* C8 amended: after update_player_stats, every identifier carried by a
\* record whose INSERT OR REPLACE did not raise has exactly one row, holding
\* the last such record whole (no merge with an earlier record), with the
\* documented default in every field that record lacks.
C8_OneRowPerStoredIdentifier ==
    StatsLoaded =>
      \A k \in 1..Len(player_stats) :
        (HasIdentifier(k) /\ Storable(k)
           /\ \A m \in (k + 1)..Len(player_stats) :
                ~(HasIdentifier(m) /\ Storable(m)
                    /\ player_stats[m].playerId = player_stats[k].playerId))
          => /\ Cardinality(RowsOfPlayer(player_stats[k].playerId)) = 1
             /\ \A r \in RowsOfPlayer(player_stats[k].playerId) :
                  HoldsRecord(r, player_stats[k])

\* C8 witness: two records with one identifier were loaded, the second one
\* sparse, and its row is the committed one
C8_Witness ==
    /\ StatsLoaded
    /\ player_stats = <<Player(I(1), "full1"), Player(I(1), "partial")>>
    /\ \E r \in disk.players : r.player_id = I(1) /\ r.full_name = S("Unknown")
====
